---- MODULE Spec2Model ----
(***************************************************************************)
(* Model of the Discord MCP server core (q1_discord_mcp_server):           *)
(*   - discord/botManager.js : the registry of running bots (activeBots),  *)
(*     startBot / stopBot and the six dispatch operations;                 *)
(*   - mcp/server.js         : the CallTool request handler;               *)
(*   - auth/index.js         : API keys, permissions, middleware and the   *)
(*     sliding-window rate limiter;                                        *)
(*   - moderation/contentModerator.js : the rule pipeline.                 *)
(* Every async function is split at its awaits: the synchronous prefix is  *)
(* one action, each resolution or rejection of the awaited platform        *)
(* promise is another, and the continuation runs in that same action.      *)
(***************************************************************************)
EXTENDS Integers, Sequences, FiniteSets, TLC

VARIABLES
    activeBots,   \* botManager.js:6   Map botId -> {client, isActive}
    clients,      \* discord.js Client objects made by createBot, in creation order
    calls,        \* invocations of startBot / stopBot / dispatch operations
    toolCalls,    \* CallTool requests handled by DiscordMCPServer
    budget,       \* startBot / stopBot invocations the environment may still make
    enabled,      \* config.contentModeration.enabled
    forbiddenWords, \* moderationRules.forbiddenWords (contentModerator.js:7)
    apiKeys,      \* auth/index.js:8   Map key -> keyData
    users,        \* auth/index.js:9   Map userId -> user
    logs,         \* what logAudit / logSecurityEvent / console.log were given
    issued,       \* plaintext secrets handed out by generateApiKey
    http,         \* Express requests that went through the auth middleware
    limiter,      \* createRateLimiter arguments: windowMs, maxRequests
    requests,     \* createRateLimiter closure: Map key -> admitted timestamps
    now,          \* Date.now()
    rlLog,        \* outcome of each rate-limiter invocation, in call order
    cleanups,     \* invocations of cleanup (botManager.js:477)
    tokens,       \* JWTs returned by generateToken
    authLog,      \* what validateApiKey / verifyToken returned, in call order
    moderation,   \* a content given to moderateContent and what came of it
    behavior,     \* calls made to moderateUserBehavior and what they returned
    wordLog       \* calls of addForbiddenWord / removeForbiddenWord, in call order

vars == <<activeBots, clients, calls, toolCalls, budget, enabled, forbiddenWords, apiKeys, users, logs, issued,
          http, limiter, requests, now, rlLog, cleanups, tokens, authLog, moderation,
          behavior, wordLog>>

registryVars == <<activeBots, clients, calls, toolCalls, budget>>
modVars      == <<enabled, forbiddenWords>>
authVars     == <<apiKeys, users, logs, issued, http>>
rateVars     == <<limiter, requests, now, rlLog>>
cleanupVars  == <<cleanups>>
credVars     == <<tokens, authLog>>
verdictVars  == <<moderation, behavior, wordLog>>

(***************************************************************************)
(* Bounds                                                                  *)
(***************************************************************************)
MaxCalls == 4        \* invocations of startBot / stopBot in one behaviour
MaxSetup == 2        \* the same, where dispatch operations or tools are called too
MaxDispatch == 1     \* direct invocations of dispatch operations
MaxToolCalls == 1    \* CallTool requests
MaxPerms == 2        \* length of a permission list
MaxUsers == 2        \* users created
MaxKeys == 2         \* API keys created
MaxLimiterCalls == 4 \* invocations of the rate limiter
MaxTime == 4         \* last instant of the clock
MaxWindow == 2       \* largest windowMs given to createRateLimiter
MaxLimit == 2        \* largest maxRequests given to createRateLimiter
MaxAuthCalls == 2    \* invocations of validateApiKey / verifyToken
MaxTokens == 2       \* tokens issued by generateToken
MaxCleanups == 1     \* invocations of cleanup
MaxWordOps == 2      \* invocations of addForbiddenWord / removeForbiddenWord
MaxBehaviorCalls == 12 \* invocations of moderateUserBehavior

BotIds == {"A", "B"}

\* config/index.js: FORBIDDEN_WORDS default 'spam,scam,malware'
DefaultForbiddenWords == {"spam", "scam", "malware"}

Undefined == [undefined |-> TRUE]


(***************************************************************************)
(* moderation/contentModerator.js                                          *)
(* A message content is represented by what the rules measure of it: its   *)
(* length, the lower-case words it contains as substrings, the spam        *)
(* patterns that match it, and the counts the remaining rules compute.     *)
(* isString = FALSE stands for a content value that is not a string.       *)
(***************************************************************************)
\* config/index.js: MAX_MESSAGE_LENGTH default
MaxMessageLength == 2000

Content(len, words, spam, suspicious, mentions, emojis, letters, upper) ==
    [isString |-> TRUE, length |-> len, words |-> words, spam |-> spam,
     suspicious |-> suspicious, mentions |-> mentions, emojis |-> emojis,
     letters |-> letters, upper |-> upper]

EmptyContent == Content(0, {}, {}, 0, 0, 0, 0, 0)

\* class ModerationResult (the timestamp is left out)
ModerationResult(isApproved, reason, severity, actions) ==
    [isApproved |-> isApproved, reason |-> reason, severity |-> severity,
     actions |-> actions]

checkMessageLength(content) ==
    IF content.length > MaxMessageLength
    THEN ModerationResult(FALSE, "Message exceeds maximum length", "medium",
                          <<"truncate", "warn">>)
    ELSE ModerationResult(TRUE, "Message length acceptable", "low", <<>>)

foundWords(content) == {w \in forbiddenWords : w \in content.words}

\* checkForbiddenWords grading every match as medium
checkForbiddenWords_alwaysMedium(content) ==
    IF Cardinality(foundWords(content)) > 0
    THEN ModerationResult(FALSE, "Forbidden words detected", "medium", <<"warn">>)
    ELSE ModerationResult(TRUE, "No forbidden words detected", "low", <<>>)

checkForbiddenWords(content) ==
    IF Cardinality(foundWords(content)) > 0
    THEN IF Cardinality(foundWords(content)) >= 3
         THEN ModerationResult(FALSE, "Forbidden words detected", "high",
                               <<"delete", "warn", "timeout">>)
         ELSE ModerationResult(FALSE, "Forbidden words detected", "medium",
                               <<"warn">>)
    ELSE ModerationResult(TRUE, "No forbidden words detected", "low", <<>>)

\* moderationRules.spamPatterns has three patterns; content.spam holds the
\* indexes of those that match.
checkSpamPatterns(content) ==
    IF \E p \in 1..3 : p \in content.spam
    THEN ModerationResult(FALSE, "Spam pattern detected", "medium",
                          <<"warn", "delete">>)
    ELSE ModerationResult(TRUE, "No spam patterns detected", "low", <<>>)

checkSuspiciousContent(content) ==
    IF content.suspicious >= 3
    THEN ModerationResult(FALSE, "Suspicious content detected", "medium",
                          <<"flag", "warn">>)
    ELSE ModerationResult(TRUE, "Content appears normal", "low", <<>>)

checkExcessiveMentions(content) ==
    IF content.mentions > 5
    THEN ModerationResult(FALSE, "Excessive mentions detected", "medium",
                          <<"warn", "delete">>)
    ELSE ModerationResult(TRUE, "Mention count acceptable", "low", <<>>)

checkExcessiveEmojis(content) ==
    IF content.emojis > 10
    THEN ModerationResult(FALSE, "Excessive emojis detected", "low", <<"warn">>)
    ELSE ModerationResult(TRUE, "Emoji count acceptable", "low", <<>>)

\* upperCase.length / letters.length > 0.7, in integers
checkCapsSpam(content) ==
    IF content.letters > 10 /\ content.upper * 10 > content.letters * 7
    THEN ModerationResult(FALSE, "Excessive capitalization detected", "low",
                          <<"warn">>)
    ELSE ModerationResult(TRUE, "Capitalization acceptable", "low", <<>>)

severityOrder(sev) ==
    CASE sev = "low" -> 1 [] sev = "medium" -> 2 [] sev = "high" -> 3
      [] sev = "critical" -> 4

\* the sort putting a later violation before an earlier one of equal severity
RECURSIVE insertBySeverity_lastWins(_, _)
insertBySeverity_lastWins(sorted, v) ==
    IF sorted = <<>> THEN <<v>>
    ELSE IF severityOrder(Head(sorted).severity) > severityOrder(v.severity)
         THEN <<Head(sorted)>> \o insertBySeverity_lastWins(Tail(sorted), v)
         ELSE <<v>> \o sorted

\* Array.prototype.sort with the comparator
\* (a, b) => severityOrder[b.severity] - severityOrder[a.severity]; the sort
\* is stable, so equal severities keep their order.
RECURSIVE insertBySeverity(_, _)
insertBySeverity(sorted, v) ==
    IF sorted = <<>> THEN <<v>>
    ELSE IF severityOrder(Head(sorted).severity) >= severityOrder(v.severity)
         THEN <<Head(sorted)>> \o insertBySeverity(Tail(sorted), v)
         ELSE <<v>> \o sorted

RECURSIVE sortBySeverity(_)
sortBySeverity(vs) ==
    IF vs = <<>> THEN <<>>
    ELSE insertBySeverity(sortBySeverity(SubSeq(vs, 1, Len(vs) - 1)), vs[Len(vs)])

checks(content) ==
    <<checkMessageLength(content), checkForbiddenWords(content),
      checkSpamPatterns(content), checkSuspiciousContent(content),
      checkExcessiveMentions(content), checkExcessiveEmojis(content),
      checkCapsSpam(content)>>

violations(content) == SelectSeq(checks(content), LAMBDA c : ~c.isApproved)

\* moderateContent without the test of config.contentModeration.enabled
moderateContent_ignoreSwitch(content) ==
    IF ~content.isString
    THEN ModerationResult(TRUE, "Moderation check failed", "low", <<>>)
    ELSE IF Len(violations(content)) = 0
    THEN ModerationResult(TRUE, "Content approved", "low", <<>>)
    ELSE sortBySeverity(violations(content))[1]

\* moderateContent whose catch block refuses the content
moderateContent_failClosed(content) ==
    IF ~enabled
    THEN ModerationResult(TRUE, "Content moderation disabled", "low", <<>>)
    ELSE IF ~content.isString
    THEN ModerationResult(FALSE, "Moderation check failed", "high", <<"delete">>)
    ELSE IF Len(violations(content)) = 0
    THEN ModerationResult(TRUE, "Content approved", "low", <<>>)
    ELSE sortBySeverity(violations(content))[1]

\* A content that is not a string makes content.toLowerCase() throw inside
\* checkForbiddenWords; the catch block returns an approved result.
moderateContent(content) ==
    IF ~enabled
    THEN ModerationResult(TRUE, "Content moderation disabled", "low", <<>>)
    ELSE IF ~content.isString
    THEN ModerationResult(TRUE, "Moderation check failed", "low", <<>>)
    ELSE IF Len(violations(content)) = 0
    THEN ModerationResult(TRUE, "Content approved", "low", <<>>)
    ELSE sortBySeverity(violations(content))[1]

\* the rules in the order moderateContent lists them
ruleNames ==
    <<"length", "forbiddenWords", "spam", "suspicious", "mentions", "emojis", "caps">>

\* what moderateContent evaluates before it returns: nothing when moderation
\* is disabled, the seven rules for a string, and for a value that is not a
\* string the length rule and the forbidden-word rule, which throws
rulesEvaluated(content) ==
    IF ~enabled THEN <<>>
    ELSE IF ~content.isString
    THEN <<[rule |-> "length", threw |-> FALSE, result |-> checkMessageLength(content)],
           [rule |-> "forbiddenWords", threw |-> TRUE,
            result |-> ModerationResult(TRUE, "", "low", <<>>)]>>
    ELSE [i \in 1..7 |-> [rule |-> ruleNames[i], threw |-> FALSE,
                          result |-> checks(content)[i]]]

\* moderateContent called with the waiting content
ModerateContent ==
    /\ moderation.state = "pending"
    /\ moderation' = [moderation EXCEPT !.state = "done",
                         !.evaluated = rulesEvaluated(moderation.content),
                         !.verdict = moderateContent(moderation.content)]
    /\ UNCHANGED <<modVars, behavior, wordLog>>

\* the strings given to addForbiddenWord and removeForbiddenWord: plain
\* lower-case words, the same with a capital, with a space on either side,
\* with both, and strings that are empty or blank
RawWords == {"hello", "Hello", " hello ", " Hello ", "spam", "", "  "}

\* String.prototype.trim
trim(word) ==
    CASE word = " hello " -> "hello"
      [] word = " Hello " -> "Hello"
      [] word = "  "      -> ""
      [] OTHER            -> word

\* String.prototype.toLowerCase
toLowerCase(word) ==
    CASE word = "Hello"   -> "hello"
      [] word = " Hello " -> " hello "
      [] OTHER            -> word

\* a call of addForbiddenWord / removeForbiddenWord and the set it left
WordOp(fn, word, returned, after) ==
    [fn |-> fn, word |-> word, returned |-> returned,
     before |-> forbiddenWords, after |-> after]

\* addForbiddenWord(word) for a string
addForbiddenWord(word) ==
    /\ Len(wordLog) < MaxWordOps
    /\ IF trim(word) # ""
       THEN /\ forbiddenWords' = forbiddenWords \cup {toLowerCase(trim(word))}
            /\ wordLog' = Append(wordLog, WordOp("add", word, TRUE, forbiddenWords'))
       ELSE /\ UNCHANGED forbiddenWords
            /\ wordLog' = Append(wordLog, WordOp("add", word, FALSE, forbiddenWords))
    /\ UNCHANGED <<enabled, moderation, behavior>>

\* removeForbiddenWord(word) for a string
removeForbiddenWord(word) ==
    /\ Len(wordLog) < MaxWordOps
    /\ IF toLowerCase(word) \in forbiddenWords
       THEN /\ forbiddenWords' = forbiddenWords \ {toLowerCase(word)}
            /\ wordLog' = Append(wordLog, WordOp("remove", word, TRUE, forbiddenWords'))
       ELSE /\ UNCHANGED forbiddenWords
            /\ wordLog' = Append(wordLog, WordOp("remove", word, FALSE, forbiddenWords))
    /\ UNCHANGED <<enabled, moderation, behavior>>

\* moderateUserBehavior: `const windowMs = 60000` and the test
\* `recentActions.length > 10`
BehaviorWindowMs == 60000

MaxRecentActions == 10

BehaviorKeys == {<<"u1", "g1">>, <<"u2", "g1">>}

\* moderateUserBehavior has not been called
NoBehavior ==
    [made |-> [k \in BehaviorKeys |-> 0],
     last |-> [key |-> <<"", "">>, time |-> 0, recent |-> 0, shouldModerate |-> FALSE],
     moderated |-> FALSE]

\* what one call leaves behind: the calls made so far for each key, what
\* this call saw and returned, and whether any call ever asked to moderate
BehaviorAfter(key, recent, shouldModerate) ==
    [made |-> [behavior.made EXCEPT ![key] = @ + 1],
     last |-> [key |-> key, time |-> now, recent |-> recent,
               shouldModerate |-> shouldModerate],
     moderated |-> behavior.moderated \/ shouldModerate]

\* moderateUserBehavior keeping the times of earlier calls between calls
moderateUserBehavior_remembering(userId, guildId) ==
    /\ behavior.made[<<"u1", "g1">>] + behavior.made[<<"u2", "g1">>] < MaxBehaviorCalls
    /\ now < BehaviorWindowMs
    /\ behavior' = BehaviorAfter(<<userId, guildId>>, behavior.made[<<userId, guildId>>],
                                 behavior.made[<<userId, guildId>>] > MaxRecentActions)
    /\ UNCHANGED <<modVars, moderation, wordLog>>

\* moderateUserBehavior: userActions is a new Map() in every call, so the
\* list read for the key is the empty one just stored
moderateUserBehavior(userId, guildId) ==
    LET userActions   == [k \in {<<userId, guildId>>} |-> <<>>]
        actions       == userActions[<<userId, guildId>>]
        recentActions == SelectSeq(actions, LAMBDA time : now - time < BehaviorWindowMs)
    IN  /\ behavior.made[<<"u1", "g1">>] + behavior.made[<<"u2", "g1">>] < MaxBehaviorCalls
        /\ behavior' = BehaviorAfter(<<userId, guildId>>, Len(recentActions),
                                     Len(recentActions) > MaxRecentActions)
        /\ UNCHANGED <<modVars, moderation, wordLog>>

(***************************************************************************)
(* discord/botManager.js : registry                                        *)
(***************************************************************************)
DispatchOps == {"sendMessage", "getMessageHistory", "getChannelMetadata",
                "searchMessages", "deleteMessage", "getGuildInfo"}

\* The platform promises each dispatch operation awaits, in order.
PlatformSteps(op) ==
    CASE op = "sendMessage"        -> <<"channels.fetch", "channel.send">>
      [] op = "getMessageHistory"  -> <<"channels.fetch", "messages.fetch">>
      [] op = "getChannelMetadata" -> <<"channels.fetch">>
      [] op = "searchMessages"     -> <<"channels.fetch", "messages.fetch">>
      [] op = "deleteMessage"      -> <<"channels.fetch", "messages.fetch",
                                        "message.delete">>
      [] op = "getGuildInfo"       -> <<"guilds.fetch">>

\* The awaited values the code tests with `if (!x) throw new Error(... not found)`.
NullChecked(op, step) ==
    \/ step = 1
    \/ op = "deleteMessage" /\ step = 2

has(map, key) == key \in DOMAIN map

getBot(botId) == IF has(activeBots, botId) THEN activeBots[botId] ELSE Undefined

getAllBots == { [id |-> b, isActive |-> activeBots[b].isActive] : b \in DOMAIN activeBots }

mapSet(map, key, value) == [k \in (DOMAIN map) \cup {key} |-> IF k = key THEN value ELSE map[k]]

mapDelete(map, key) == [k \in (DOMAIN map) \ {key} |-> map[k]]

\* createBot: a new Client with its handlers attached; nothing is connected yet.
createBot(botId) == [bot |-> botId, state |-> "created", ready |-> FALSE]

NumCalls(ops) == Cardinality({i \in DOMAIN calls : calls[i].op \in ops})

LifecycleOps == {"startBot", "stopBot"}

NewCall(op, botId) ==
    [op |-> op, bot |-> botId, pc |-> "done", step |-> 0, client |-> 0,
     seen |-> FALSE, pcalls |-> 0, result |-> "pending", tool |-> 0]

\* startBot without the activeBots.has test: a registered bot is connected again
startBot_reconnect(botId) ==
    /\ budget > 0
    /\ budget' = budget - 1
    /\ clients' = Append(clients, createBot(botId))
    /\ calls' = Append(calls, [NewCall("startBot", botId) EXCEPT
                       !.seen = has(activeBots, botId),
                       !.pc = "awaitLogin", !.client = Len(clients) + 1])
    /\ UNCHANGED <<activeBots, toolCalls>>

\* startBot up to `await client.login(...)`.
startBot(botId) ==
    /\ budget > 0
    /\ budget' = budget - 1
    /\ IF has(activeBots, botId)
       THEN /\ calls' = Append(calls, [NewCall("startBot", botId) EXCEPT
                               !.seen = TRUE, !.result = "existing"])
            /\ UNCHANGED clients
       ELSE /\ clients' = Append(clients, createBot(botId))
            /\ calls' = Append(calls, [NewCall("startBot", botId) EXCEPT
                               !.pc = "awaitLogin", !.client = Len(clients) + 1])
    /\ UNCHANGED <<activeBots, toolCalls>>

\* client.login resolves: the connection is open, startBot registers the bot.
LoginResolve(i) ==
    /\ calls[i].pc = "awaitLogin"
    /\ clients' = [clients EXCEPT ![calls[i].client].state = "open"]
    /\ activeBots' = mapSet(activeBots, calls[i].bot,
                            [client |-> calls[i].client, isActive |-> TRUE])
    /\ calls' = [calls EXCEPT ![i].pc = "done", ![i].result = "client"]
    /\ UNCHANGED <<toolCalls, budget>>

\* client.login rejects: startBot logs and rethrows.
LoginReject(i) ==
    /\ calls[i].pc = "awaitLogin"
    /\ calls' = [calls EXCEPT ![i].pc = "done", ![i].result = "throw"]
    /\ UNCHANGED <<activeBots, clients, toolCalls, budget>>

\* The 'ready' handler of createBot only logs.
ClientReady(c) ==
    /\ clients[c].state = "open"
    /\ ~clients[c].ready
    /\ clients' = [clients EXCEPT ![c].ready = TRUE]
    /\ UNCHANGED <<activeBots, calls, toolCalls, budget>>

\* The platform drops the connection: the 'disconnect' handler of createBot
\* logs the event and touches neither the registry nor the record.
ClientDisconnect(c) ==
    /\ clients[c].state = "open"
    /\ clients' = [clients EXCEPT ![c].state = "disconnected"]
    /\ UNCHANGED <<activeBots, calls, toolCalls, budget>>

\* the invocation stopBot(botId) starts: it returns false for an id that is
\* not registered, else it awaits the destroy of the registered client
stopBotCall(botId) ==
    IF ~has(activeBots, botId)
    THEN [NewCall("stopBot", botId) EXCEPT !.result = "false"]
    ELSE [NewCall("stopBot", botId) EXCEPT
             !.seen = TRUE, !.pc = "awaitDestroy",
             !.client = activeBots[botId].client]

\* stopBot up to `await botInstance.client.destroy()`.
stopBot(botId) ==
    /\ budget > 0
    /\ budget' = budget - 1
    /\ calls' = Append(calls, stopBotCall(botId))
    /\ UNCHANGED <<activeBots, clients, toolCalls>>

\* stopBot without activeBots.delete
DestroyResolve_keep(i) ==
    /\ calls[i].pc = "awaitDestroy"
    /\ clients' = [clients EXCEPT ![calls[i].client].state = "destroyed"]
    /\ calls' = [calls EXCEPT ![i].pc = "done", ![i].result = "true"]
    /\ UNCHANGED <<activeBots, toolCalls, budget>>

\* destroy resolves: the connection is closed, stopBot deletes the record.
DestroyResolve(i) ==
    /\ calls[i].pc = "awaitDestroy"
    /\ clients' = [clients EXCEPT ![calls[i].client].state = "destroyed"]
    /\ activeBots' = mapDelete(activeBots, calls[i].bot)
    /\ calls' = [calls EXCEPT ![i].pc = "done", ![i].result = "true"]
    /\ UNCHANGED <<toolCalls, budget>>

\* stopBot dropping the record although destroy failed
DestroyReject_remove(i) ==
    /\ calls[i].pc = "awaitDestroy"
    /\ activeBots' = mapDelete(activeBots, calls[i].bot)
    /\ calls' = [calls EXCEPT ![i].pc = "done", ![i].result = "throw"]
    /\ UNCHANGED <<clients, toolCalls, budget>>

\* destroy rejects: stopBot logs and rethrows, the record stays.
DestroyReject(i) ==
    /\ calls[i].pc = "awaitDestroy"
    /\ calls' = [calls EXCEPT ![i].pc = "done", ![i].result = "throw"]
    /\ UNCHANGED <<activeBots, clients, toolCalls, budget>>


\* Array.from(activeBots.keys())
RECURSIVE keys(_)
keys(map) ==
    IF DOMAIN map = {} THEN <<>>
    ELSE LET k == CHOOSE x \in DOMAIN map : TRUE
         IN  <<k>> \o keys(mapDelete(map, k))

\* an invocation of cleanup awaiting Promise.all over the stopBot calls it made
NewCleanup(stops) ==
    [stops |-> stops, pc |-> "awaitAll", result |-> "pending", logged |-> {}]

\* `await Promise.all(stopPromises)` and what follows it: the promise rejects
\* as soon as one stopBot call has thrown, and the catch block logs that one
\* error; it resolves once every call has returned. Either way cleanup
\* returns.
Settled(cs, cl) ==
    [c \in DOMAIN cs |->
        IF cs[c].pc # "awaitAll" THEN cs[c]
        ELSE IF \E i \in cs[c].stops : cl[i].result = "throw"
        THEN [cs[c] EXCEPT !.pc = "done", !.result = "error",
                           !.logged = {i \in cs[c].stops : cl[i].result = "throw"}]
        ELSE IF \A i \in cs[c].stops : cl[i].pc = "done"
        THEN [cs[c] EXCEPT !.pc = "done", !.result = "ok"]
        ELSE cs[c]]

\* cleanup up to its await: stopBot is called for every key of activeBots
cleanup ==
    /\ Len(cleanups) < MaxCleanups
    /\ LET ids   == keys(activeBots)
           stops == [k \in 1..Len(ids) |-> stopBotCall(ids[k])]
       IN  /\ calls' = calls \o stops
           /\ cleanups' = Settled(
                 Append(cleanups, NewCleanup({Len(calls) + k : k \in 1..Len(ids)})),
                 calls')
    /\ UNCHANGED <<activeBots, clients, toolCalls, budget>>

(***************************************************************************)
(* mcp/server.js : response envelopes of the CallTool handler              *)
(***************************************************************************)
\* the handler's normal return: { content: [{ type: 'text', text: ... }] }
OkEnvelope(payload) == [isError |-> FALSE, text |-> payload]

\* the handler's catch block
ErrorEnvelope(message) ==
    [isError |-> TRUE, text |-> [error |-> message, code |-> "TOOL_EXECUTION_ERROR"]]

NoEnvelope == [isError |-> FALSE, text |-> [pending |-> TRUE]]

\* message of the Error a session operation ends with
ErrorMessage(result) ==
    CASE result = "NotRunning"    -> "Bot is not running"
      [] result = "NotFound"      -> "not found"
      [] result = "PlatformError" -> "platform error"

\* a CallTool handler whose catch block returns the error as a result
EnvelopeOf_okOnFailure(result) ==
    IF result = "ok" THEN OkEnvelope([success |-> TRUE])
    ELSE OkEnvelope([success |-> FALSE])

\* what handleSendMessage ... handleGetGuildInfo return after the awaited
\* session operation, wrapped by the CallTool handler
EnvelopeOf(result) ==
    IF result = "ok" THEN OkEnvelope([success |-> TRUE])
    ELSE ErrorEnvelope(ErrorMessage(result))

(***************************************************************************)
(* discord/botManager.js : dispatch operations                             *)
(***************************************************************************)
\* a dispatch operation without the `if (!botInstance) throw`
SessionOp_unchecked(op, botId, tool) ==
    [NewCall(op, botId) EXCEPT !.seen = has(activeBots, botId),
                               !.pc = "awaitPlatform", !.step = 1, !.pcalls = 1,
                               !.client = IF has(activeBots, botId)
                                          THEN activeBots[botId].client ELSE 0,
                               !.tool = tool]

\* The synchronous prefix shared by sendMessage, getMessageHistory,
\* getChannelMetadata, searchMessages, deleteMessage and getGuildInfo:
\* look the bot up, throw if it is absent, else issue the first platform call.
SessionOp(op, botId, tool) ==
    IF ~has(activeBots, botId)
    THEN [NewCall(op, botId) EXCEPT !.result = "NotRunning", !.tool = tool]
    ELSE [NewCall(op, botId) EXCEPT !.seen = TRUE, !.pc = "awaitPlatform",
                                    !.step = 1, !.pcalls = 1,
                                    !.client = activeBots[botId].client,
                                    !.tool = tool]

\* a session operation ends: its caller (a tool handler, if any) responds
FinishCall(i, result) ==
    /\ calls' = [calls EXCEPT ![i].pc = "done", ![i].result = result]
    /\ toolCalls' = IF calls[i].tool = 0 THEN toolCalls
                    ELSE [toolCalls EXCEPT ![calls[i].tool].envelope = EnvelopeOf(result),
                                           ![calls[i].tool].responded = TRUE]

\* a dispatch operation called directly on the module
Dispatch(op, botId) ==
    /\ NumCalls(DispatchOps) < MaxDispatch
    /\ calls' = Append(calls, SessionOp(op, botId, 0))
    /\ UNCHANGED <<activeBots, clients, toolCalls, budget>>

\* the awaited platform promise resolves with an object
PlatformResolve(i) ==
    /\ calls[i].pc = "awaitPlatform"
    /\ IF calls[i].step = Len(PlatformSteps(calls[i].op))
       THEN FinishCall(i, "ok")
       ELSE /\ calls' = [calls EXCEPT ![i].step = @ + 1, ![i].pcalls = @ + 1]
            /\ UNCHANGED toolCalls
    /\ UNCHANGED <<activeBots, clients, budget>>

\* the awaited fetch resolves with nothing: `throw new Error(... not found)`
PlatformResolveNull(i) ==
    /\ calls[i].pc = "awaitPlatform"
    /\ NullChecked(calls[i].op, calls[i].step)
    /\ FinishCall(i, "NotFound")
    /\ UNCHANGED <<activeBots, clients, budget>>

\* the awaited platform promise rejects: the operation logs and rethrows
PlatformReject(i) ==
    /\ calls[i].pc = "awaitPlatform"
    /\ FinishCall(i, "PlatformError")
    /\ UNCHANGED <<activeBots, clients, budget>>

(***************************************************************************)
(* mcp/server.js : the CallTool handler                                    *)
(***************************************************************************)
ToolNames == {"send_discord_message", "get_discord_message_history",
              "get_discord_channel_metadata", "search_discord_messages",
              "delete_discord_message", "get_discord_guild_info",
              "get_discord_bots", "moderate_discord_content"}

\* the parameters each handler tests with `if (!a || !b ...) throw`
Required(name) ==
    CASE name = "send_discord_message"         -> {"botId", "channelId", "content"}
      [] name = "get_discord_message_history"  -> {"botId", "channelId"}
      [] name = "get_discord_channel_metadata" -> {"botId", "channelId"}
      [] name = "search_discord_messages"      -> {"botId", "channelId", "query"}
      [] name = "delete_discord_message"       -> {"botId", "channelId", "messageId"}
      [] name = "get_discord_guild_info"       -> {"botId", "guildId"}
      [] name = "moderate_discord_content"     -> {"content"}
      [] OTHER                                 -> {}

\* the session operation each handler delegates to
OpOf(name) ==
    CASE name = "send_discord_message"         -> "sendMessage"
      [] name = "get_discord_message_history"  -> "getMessageHistory"
      [] name = "get_discord_channel_metadata" -> "getChannelMetadata"
      [] name = "search_discord_messages"      -> "searchMessages"
      [] name = "delete_discord_message"       -> "deleteMessage"
      [] name = "get_discord_guild_info"       -> "getGuildInfo"

\* `!x` of JavaScript for a string parameter and for a content
Missing(args, field) ==
    IF field = "content"
    THEN args.content.isString /\ args.content.length = 0
    ELSE args[field] = ""

\* a request as the CallTool handler receives it; stages lists the pipeline
\* stages the handler has run for it, call is the session operation it invoked
NewToolCall(name, args) ==
    [name |-> name, args |-> args, stages |-> <<>>, call |-> 0,
     envelope |-> NoEnvelope, responded |-> FALSE]

\* the handler returns without having called a session operation
Reply(r, stages, envelope) ==
    /\ toolCalls' = Append(toolCalls, [r EXCEPT !.stages = stages,
                                                !.envelope = envelope,
                                                !.responded = TRUE])
    /\ UNCHANGED calls

\* the handler calls `await <operation>(botId, ...)`
Delegate(r, stages, op) ==
    LET call == SessionOp(op, r.args.botId, Len(toolCalls) + 1)
    IN  /\ calls' = Append(calls, call)
        /\ toolCalls' = Append(toolCalls,
              [r EXCEPT !.stages = stages, !.call = Len(calls) + 1,
                        !.envelope = IF call.pc = "done" THEN EnvelopeOf(call.result)
                                     ELSE NoEnvelope,
                        !.responded = (call.pc = "done")])

MissingParameter(r) == \E f \in Required(r.name) : Missing(r.args, f)

\* handleSendMessage without the `if (!moderationResult.isApproved) return`
handleSendMessage_unmoderated(r) ==
    IF MissingParameter(r)
    THEN Reply(r, <<"validate">>, ErrorEnvelope("Missing required parameters"))
    ELSE Delegate(r, <<"validate", "moderate", "dispatch">>, "sendMessage")

handleSendMessage(r) ==
    IF MissingParameter(r)
    THEN Reply(r, <<"validate">>, ErrorEnvelope("Missing required parameters"))
    ELSE IF ~moderateContent(r.args.content).isApproved
    THEN Reply(r, <<"validate", "moderate">>,
               OkEnvelope([success  |-> FALSE,
                           error    |-> "Content moderation failed",
                           reason   |-> moderateContent(r.args.content).reason,
                           severity |-> moderateContent(r.args.content).severity,
                           actions  |-> moderateContent(r.args.content).actions]))
    ELSE Delegate(r, <<"validate", "moderate", "dispatch">>, "sendMessage")

\* handleGetMessageHistory, handleGetChannelMetadata, handleSearchMessages,
\* handleDeleteMessage and handleGetGuildInfo have one shape
handleSessionTool(r) ==
    IF MissingParameter(r)
    THEN Reply(r, <<"validate">>, ErrorEnvelope("Missing required parameters"))
    ELSE Delegate(r, <<"validate", "dispatch">>, OpOf(r.name))

handleGetBots(r) ==
    Reply(r, <<>>, OkEnvelope([success |-> TRUE, bots |-> getAllBots,
                               count |-> Cardinality(getAllBots)]))

handleModerateContent(r) ==
    IF MissingParameter(r)
    THEN Reply(r, <<"validate">>, ErrorEnvelope("Missing required parameters"))
    ELSE Reply(r, <<"validate", "moderate">>,
               OkEnvelope([success |-> TRUE,
                           moderation |-> moderateContent(r.args.content)]))

\* the CallTool request handler, through its first await
HandleTool(name, args) ==
    /\ Len(toolCalls) < MaxToolCalls
    /\ CASE name = "send_discord_message"     -> handleSendMessage(NewToolCall(name, args))
         [] name = "get_discord_bots"         -> handleGetBots(NewToolCall(name, args))
         [] name = "moderate_discord_content" -> handleModerateContent(NewToolCall(name, args))
         [] name \in ToolNames \ {"send_discord_message", "get_discord_bots",
                                  "moderate_discord_content"}
                                              -> handleSessionTool(NewToolCall(name, args))
         [] OTHER -> Reply(NewToolCall(name, args), <<>>, ErrorEnvelope("Unknown tool"))
    /\ UNCHANGED <<activeBots, clients, budget>>

(***************************************************************************)
(* auth/index.js : permissions and middleware                              *)
(***************************************************************************)
TenantIds == {"A", "B", "AB"}

Permissions == {"admin", "*", "send_message", "read_messages",
                "bot:A", "bot:B", "bot:AB"}

RECURSIVE SeqsUpTo(_, _)
SeqsUpTo(S, n) ==
    IF n = 0 THEN {<<>>}
    ELSE SeqsUpTo(S, n - 1) \cup
         {Append(q, x) : q \in {r \in SeqsUpTo(S, n - 1) : Len(r) = n - 1}, x \in S}

\* a JavaScript value given as userPermissions: an array of strings, or
\* something that is not an array (null, or a string such as 'admin')
PermissionValues ==
    {[isArray |-> TRUE, items |-> q] : q \in SeqsUpTo(Permissions, MaxPerms)}
        \cup {[isArray |-> FALSE, items |-> <<>>],
              [isArray |-> FALSE, items |-> <<"admin">>]}

\* Array.prototype.includes
includes(array, x) == \E i \in 1..Len(array) : array[i] = x

\* hasPermission without the '*' clause
hasPermission_noWildcard(userPermissions, requiredPermission) ==
    IF ~userPermissions.isArray THEN FALSE
    ELSE \/ includes(userPermissions.items, requiredPermission)
         \/ includes(userPermissions.items, "admin")

hasPermission(userPermissions, requiredPermission) ==
    IF ~userPermissions.isArray THEN FALSE
    ELSE \/ includes(userPermissions.items, requiredPermission)
         \/ includes(userPermissions.items, "admin")
         \/ includes(userPermissions.items, "*")

\* an Express request after authentication, and the middleware's answer
Request(hasUser, permissions, botId) ==
    [hasUser |-> hasUser, permissions |-> permissions, botId |-> botId]

Response(status, code, next, botId) ==
    [status |-> status, code |-> code, next |-> next, botId |-> botId]

NoHttp == [mw |-> "none", req |-> Request(FALSE, [isArray |-> FALSE, items |-> <<>>], ""),
           permission |-> "", res |-> Response(0, "", FALSE, ""), value |-> FALSE]

requirePermission(permission, req) ==
    IF ~req.hasUser
    THEN Response(401, "AUTHENTICATION_REQUIRED", FALSE, "")
    ELSE IF ~hasPermission(req.permissions, permission)
    THEN Response(403, "INSUFFICIENT_PERMISSIONS", FALSE, "")
    ELSE Response(200, "", TRUE, "")

\* requireBotAccess accepting any bot: permission
requireBotAccess_anyBot(req) ==
    IF req.botId = ""
    THEN Response(400, "MISSING_BOT_ID", FALSE, "")
    ELSE IF ~req.hasUser
    THEN Response(500, "TypeError", FALSE, "")
    ELSE IF /\ ~hasPermission(req.permissions, "admin")
            /\ ~\E t \in TenantIds : hasPermission(req.permissions, "bot:" \o t)
    THEN Response(403, "BOT_ACCESS_DENIED", FALSE, "")
    ELSE Response(200, "", TRUE, req.botId)

\* reading req.user.permissions of a request without user throws a TypeError
requireBotAccess(req) ==
    IF req.botId = ""
    THEN Response(400, "MISSING_BOT_ID", FALSE, "")
    ELSE IF ~req.hasUser
    THEN Response(500, "TypeError", FALSE, "")
    ELSE IF /\ ~hasPermission(req.permissions, "admin")
            /\ ~hasPermission(req.permissions, "bot:" \o req.botId)
    THEN Response(403, "BOT_ACCESS_DENIED", FALSE, "")
    ELSE Response(200, "", TRUE, req.botId)

\* hasPermission called on the waiting request's permissions
HasPermissionCall ==
    /\ http.mw = "pending"
    /\ http' = [http EXCEPT !.mw = "hasPermission",
                   !.value = hasPermission(http.req.permissions, http.permission)]
    /\ UNCHANGED <<apiKeys, users, logs, issued>>

\* requirePermission(permission) run on the waiting request
RequirePermission ==
    /\ http.mw = "pending"
    /\ http' = [http EXCEPT !.mw = "requirePermission",
                            !.res = requirePermission(http.permission, http.req)]
    /\ UNCHANGED <<apiKeys, users, logs, issued>>

\* requireBotAccess run on the waiting request
RequireBotAccess ==
    /\ http.mw = "pending"
    /\ http' = [http EXCEPT !.mw = "requireBotAccess",
                            !.res = requireBotAccess(http.req)]
    /\ UNCHANGED <<apiKeys, users, logs, issued>>

(***************************************************************************)
(* auth/index.js : users and API keys                                      *)
(***************************************************************************)
\* generateApiKey: crypto.randomBytes(32).toString('hex')
Secrets == {[plain |-> i] : i \in 1..MaxKeys}

\* bcrypt.hashSync: the digest does not give the plaintext back
hashSync(secret) == [bcrypt |-> secret.plain]

Passwords == {[plain |-> 100], [plain |-> 101]}

\* logAudit / logSecurityEvent / console.log: the event, the user it names and
\* the secrets written out with it
LogEntry(event, userId, secrets) == [event |-> event, user |-> userId, secrets |-> secrets]

\* `user_${Date.now()}_${random}`: an id no user has yet
NewUserId == Cardinality(DOMAIN users) + 1

\* lastLogin: null is <<>>, a date is <<instant>>
userRecord(username, password, permissions) ==
    [username |-> username, hashedPassword |-> hashSync(password),
     permissions |-> permissions, createdAt |-> now, lastLogin |-> <<>>,
     isActive |-> TRUE]

\* lastUsed: null is <<>>, a date is <<instant>>
keyData(userId, apiKey, permissions) ==
    [userId |-> userId, hashedKey |-> hashSync(apiKey), permissions |-> permissions,
     createdAt |-> now, lastUsed |-> <<>>, isActive |-> TRUE]

createUser(username, password, permissions) ==
    /\ Cardinality(DOMAIN users) < MaxUsers
    /\ users' = mapSet(users, NewUserId, userRecord(username, password, permissions))
    /\ logs' = logs \cup {LogEntry("USER_CREATED", NewUserId, {})}
    /\ UNCHANGED <<apiKeys, issued, http>>

createApiKey(userId, permissions) ==
    /\ \E apiKey \in Secrets \ issued :
          /\ apiKeys' = mapSet(apiKeys, apiKey, keyData(userId, apiKey, permissions))
          /\ issued' = issued \cup {apiKey}
    /\ logs' = logs \cup {LogEntry("API_KEY_CREATED", userId, {})}
    /\ UNCHANGED <<users, http>>

initializeDefaultUser ==
    /\ Cardinality(DOMAIN users) < MaxUsers
    /\ users' = mapSet(users, NewUserId,
                       userRecord("admin", [plain |-> 100], <<"admin", "*">>))
    /\ \E apiKey \in Secrets \ issued :
          /\ apiKeys' = mapSet(apiKeys, apiKey,
                               keyData(NewUserId, apiKey, <<"admin", "*">>))
          /\ issued' = issued \cup {apiKey}
          /\ logs' = logs \cup {LogEntry("USER_CREATED", NewUserId, {}),
                                LogEntry("API_KEY_CREATED", NewUserId, {}),
                                LogEntry("console.log", NewUserId,
                                         {[plain |-> 100], apiKey})}
    /\ UNCHANGED http

\* an apiKey argument that is undefined or the empty string
NoKey == [plain |-> 0]

\* the null validateApiKey and verifyToken return
NoPrincipal == [userId |-> 0, permissions |-> <<>>]

\* validateApiKey that answers for any stored key without the isActive test
\* and for a missing key with the first stored one
validateApiKey_anyKey(apiKey) ==
    /\ Len(authLog) < MaxAuthCalls
    /\ IF DOMAIN apiKeys = {}
       THEN /\ authLog' = Append(authLog,
                   [fn |-> "validateApiKey", arg |-> apiKey, time |-> now,
                    ok |-> FALSE, principal |-> NoPrincipal])
            /\ UNCHANGED apiKeys
       ELSE LET k == IF has(apiKeys, apiKey) THEN apiKey
                     ELSE CHOOSE x \in DOMAIN apiKeys : TRUE
            IN  /\ apiKeys' = [apiKeys EXCEPT ![k].lastUsed = <<now>>]
                /\ authLog' = Append(authLog,
                       [fn |-> "validateApiKey", arg |-> apiKey, time |-> now,
                        ok |-> TRUE,
                        principal |-> [userId |-> apiKeys[k].userId,
                                       permissions |-> apiKeys[k].permissions]])
    /\ UNCHANGED <<users, logs, issued, http, tokens>>

validateApiKey(apiKey) ==
    /\ Len(authLog) < MaxAuthCalls
    /\ IF \/ apiKey = NoKey
          \/ ~has(apiKeys, apiKey)
          \/ ~apiKeys[apiKey].isActive
       THEN /\ authLog' = Append(authLog,
                   [fn |-> "validateApiKey", arg |-> apiKey, time |-> now,
                    ok |-> FALSE, principal |-> NoPrincipal])
            /\ UNCHANGED apiKeys
       ELSE /\ apiKeys' = [apiKeys EXCEPT ![apiKey].lastUsed = <<now>>]
            /\ authLog' = Append(authLog,
                   [fn |-> "validateApiKey", arg |-> apiKey, time |-> now,
                    ok |-> TRUE,
                    principal |-> [userId |-> apiKeys[apiKey].userId,
                                   permissions |-> apiKeys[apiKey].permissions]])
    /\ UNCHANGED <<users, logs, issued, http, tokens>>

(***************************************************************************)
(* auth/index.js : JSON web tokens                                         *)
(* Date.now() is in milliseconds; the iat and exp claims and the clock     *)
(* jwt.verify compares exp with are in whole seconds.                      *)
(***************************************************************************)
\* Math.floor(Date.now() / 1000)
epochSeconds(ms) == ms \div 1000

\* 24 * 60 * 60, the lifetime generateToken gives a token
TokenTtl == 24 * 60 * 60

\* config.jwtSecret, and a secret the server does not hold
JwtSecret == "config.jwtSecret"

OtherSecret == "another secret"

\* jwt.sign: the payload under a signature only the secret's holder can make
sign(payload, secret) == [payload |-> payload, signature |-> secret]

\* jwt.verify: throws unless the signature was made with the secret and the
\* clock, in seconds, is still below the exp claim
verify(token, secret) ==
    /\ token.signature = secret
    /\ epochSeconds(now) < token.payload.exp

generateToken(userId, permissions) ==
    /\ Cardinality(tokens) < MaxTokens
    /\ tokens' = tokens \cup
          {sign([userId |-> userId, permissions |-> permissions,
                 iat |-> epochSeconds(now),
                 exp |-> epochSeconds(now) + TokenTtl], JwtSecret)}
    /\ UNCHANGED <<authVars, authLog>>

\* verifyToken that checks the signature only
verifyToken_noExpiry(token) ==
    /\ Len(authLog) < MaxAuthCalls
    /\ IF token.signature = JwtSecret
       THEN /\ authLog' = Append(authLog,
                   [fn |-> "verifyToken", arg |-> token, time |-> now, ok |-> TRUE,
                    principal |-> [userId |-> token.payload.userId,
                                   permissions |-> token.payload.permissions]])
            /\ UNCHANGED logs
       ELSE /\ authLog' = Append(authLog,
                   [fn |-> "verifyToken", arg |-> token, time |-> now, ok |-> FALSE,
                    principal |-> NoPrincipal])
            /\ logs' = logs \cup {LogEntry("JWT_VERIFICATION_FAILED", 0, {})}
    /\ UNCHANGED <<apiKeys, users, issued, http, tokens>>

verifyToken(token) ==
    /\ Len(authLog) < MaxAuthCalls
    /\ IF verify(token, JwtSecret)
       THEN /\ authLog' = Append(authLog,
                   [fn |-> "verifyToken", arg |-> token, time |-> now, ok |-> TRUE,
                    principal |-> [userId |-> token.payload.userId,
                                   permissions |-> token.payload.permissions]])
            /\ UNCHANGED logs
       ELSE /\ authLog' = Append(authLog,
                   [fn |-> "verifyToken", arg |-> token, time |-> now, ok |-> FALSE,
                    principal |-> NoPrincipal])
            /\ logs' = logs \cup {LogEntry("JWT_VERIFICATION_FAILED", 0, {})}
    /\ UNCHANGED <<apiKeys, users, issued, http, tokens>>

(***************************************************************************)
(* auth/index.js : createRateLimiter                                       *)
(***************************************************************************)
\* userRequests.filter(time => now - time < windowMs)
validRequests(key) ==
    SelectSeq(IF has(requests, key) THEN requests[key] ELSE <<>>,
              LAMBDA time : now - time < limiter.windowMs)

\* Math.ceil(ms / 1000)
ceilSeconds(ms) == (ms + 999) \div 1000

\* the limiter recording the time of a rejected call as well
RateLimit_recordRejected(key) ==
    /\ Len(rlLog) < MaxLimiterCalls
    /\ requests' = mapSet(requests, key, Append(validRequests(key), now))
    /\ IF Len(validRequests(key)) >= limiter.maxRequests
       THEN rlLog' = Append(rlLog, [key |-> key, time |-> now, admitted |-> FALSE,
                                    status |-> 429, code |-> "RATE_LIMIT_EXCEEDED",
                                    retryAfter |-> ceilSeconds(limiter.windowMs)])
       ELSE rlLog' = Append(rlLog, [key |-> key, time |-> now, admitted |-> TRUE,
                                    status |-> 200, code |-> "", retryAfter |-> 0])
    /\ UNCHANGED <<limiter, now>>

\* the limiter counting the requests in the window but storing the list
\* without the filter
RateLimit_noPrune(key) ==
    /\ Len(rlLog) < MaxLimiterCalls
    /\ IF Len(validRequests(key)) >= limiter.maxRequests
       THEN /\ requests' = mapSet(requests, key,
                                  IF has(requests, key) THEN requests[key] ELSE <<>>)
            /\ rlLog' = Append(rlLog, [key |-> key, time |-> now, admitted |-> FALSE,
                                       status |-> 429, code |-> "RATE_LIMIT_EXCEEDED",
                                       retryAfter |-> ceilSeconds(limiter.windowMs)])
       ELSE /\ requests' = mapSet(requests, key,
                                  Append(IF has(requests, key) THEN requests[key] ELSE <<>>,
                                         now))
            /\ rlLog' = Append(rlLog, [key |-> key, time |-> now, admitted |-> TRUE,
                                       status |-> 200, code |-> "", retryAfter |-> 0])
    /\ UNCHANGED <<limiter, now>>

\* the limiter with `>` in place of `>=`
RateLimit_offByOne(key) ==
    /\ Len(rlLog) < MaxLimiterCalls
    /\ IF Len(validRequests(key)) > limiter.maxRequests
       THEN /\ requests' = mapSet(requests, key, validRequests(key))
            /\ rlLog' = Append(rlLog, [key |-> key, time |-> now, admitted |-> FALSE,
                                       status |-> 429, code |-> "RATE_LIMIT_EXCEEDED",
                                       retryAfter |-> ceilSeconds(limiter.windowMs)])
       ELSE /\ requests' = mapSet(requests, key, Append(validRequests(key), now))
            /\ rlLog' = Append(rlLog, [key |-> key, time |-> now, admitted |-> TRUE,
                                       status |-> 200, code |-> "", retryAfter |-> 0])
    /\ UNCHANGED <<limiter, now>>

\* the middleware createRateLimiter returns, called for the request key
RateLimit(key) ==
    /\ Len(rlLog) < MaxLimiterCalls
    /\ IF Len(validRequests(key)) >= limiter.maxRequests
       THEN /\ requests' = mapSet(requests, key, validRequests(key))
            /\ rlLog' = Append(rlLog, [key |-> key, time |-> now, admitted |-> FALSE,
                                       status |-> 429, code |-> "RATE_LIMIT_EXCEEDED",
                                       retryAfter |-> ceilSeconds(limiter.windowMs)])
       ELSE /\ requests' = mapSet(requests, key, Append(validRequests(key), now))
            /\ rlLog' = Append(rlLog, [key |-> key, time |-> now, admitted |-> TRUE,
                                       status |-> 200, code |-> "", retryAfter |-> 0])
    /\ UNCHANGED <<limiter, now>>

\* Date.now() moves on
Tick ==
    /\ now < MaxTime
    /\ now' = now + 1
    /\ UNCHANGED <<limiter, requests, rlLog>>

\* Date.now() a second later
TickSecond ==
    /\ now < MaxTime * 1000
    /\ now' = now + 1000
    /\ UNCHANGED <<limiter, requests, rlLog>>

RegistryInit ==
    /\ activeBots = <<>>
    /\ clients = <<>>
    /\ calls = <<>>
    /\ toolCalls = <<>>
    /\ budget = MaxCalls

AuthInit ==
    /\ apiKeys = <<>>
    /\ users = <<>>
    /\ logs = {}
    /\ issued = {}
    /\ http = NoHttp

RateInit ==
    /\ limiter = [windowMs |-> 1, maxRequests |-> 1]
    /\ requests = <<>>
    /\ now = 0
    /\ rlLog = <<>>

ModInit ==
    /\ enabled = TRUE
    /\ forbiddenWords = DefaultForbiddenWords

CleanupInit ==
    cleanups = <<>>

CredInit ==
    /\ tokens = {}
    /\ authLog = <<>>

\* moderateContent has not been called
NoModeration ==
    [state |-> "none", content |-> EmptyContent, evaluated |-> <<>>,
     verdict |-> ModerationResult(TRUE, "", "low", <<>>)]

VerdictInit ==
    /\ moderation = NoModeration
    /\ behavior = NoBehavior
    /\ wordLog = <<>>

Init ==
    /\ RegistryInit /\ ModInit /\ AuthInit /\ RateInit
    /\ CleanupInit /\ CredInit /\ VerdictInit

\* contents offered to the tools: clean, one forbidden word, three forbidden
\* words, a repeated-character run with three suspicious keywords, capitals
\* only, and a value that is not a string
CleanContent      == Content(5, {"hello"}, {}, 0, 0, 0, 5, 0)
OneWordContent    == Content(9, {"spam"}, {}, 0, 0, 0, 9, 0)
ThreeWordContent  == Content(20, {"spam", "scam", "malware"}, {}, 0, 0, 0, 20, 0)
SpamSuspContent   == Content(58, {}, {1}, 6, 0, 0, 46, 10)
CapsContent       == Content(12, {}, {}, 0, 0, 0, 12, 12)
NonStringContent  == [EmptyContent EXCEPT !.isString = FALSE]

GatewayContents == {CleanContent, OneWordContent, SpamSuspContent, NonStringContent}

\* arguments of a request: every required parameter present, or one missing
MkArgs(name, botId, content, missing) ==
    LET given(f) == f \in Required(name) \ missing
    IN  [botId     |-> IF given("botId") THEN botId ELSE "",
         channelId |-> IF given("channelId") THEN "c1" ELSE "",
         content   |-> IF given("content") THEN content ELSE EmptyContent,
         query     |-> IF given("query") THEN "q" ELSE "",
         messageId |-> IF given("messageId") THEN "m1" ELSE "",
         guildId   |-> IF given("guildId") THEN "g1" ELSE ""]

ToolArgs(name) ==
    {MkArgs(name, b, c, {}) : b \in BotIds, c \in GatewayContents}
        \cup {MkArgs(name, "A", CleanContent, {f}) : f \in Required(name)}

StartStep ==
    \E b \in BotIds : startBot(b)

LoginResolveStep ==
    \E i \in DOMAIN calls : LoginResolve(i)

LoginRejectStep ==
    \E i \in DOMAIN calls : LoginReject(i)

ClientReadyStep ==
    \E c \in DOMAIN clients : ClientReady(c)

StopStep ==
    \E b \in BotIds : stopBot(b)

DestroyResolveStep ==
    \E i \in DOMAIN calls : DestroyResolve(i)

DestroyRejectStep ==
    \E i \in DOMAIN calls : DestroyReject(i)

DispatchStep ==
    \E op \in DispatchOps, b \in BotIds : Dispatch(op, b)

PlatformResolveStep ==
    \E i \in DOMAIN calls : PlatformResolve(i)

PlatformResolveNullStep ==
    \E i \in DOMAIN calls : PlatformResolveNull(i)

PlatformRejectStep ==
    \E i \in DOMAIN calls : PlatformReject(i)

\* the requests the bridge may deliver
ToolRequests ==
    UNION {{<<n, a>> : a \in ToolArgs(n)} : n \in ToolNames \cup {"unknown_tool"}}

CallToolStep ==
    \E r \in ToolRequests : HandleTool(r[1], r[2])

\* the lifecycle of the bots: startBot, stopBot and the platform's answers
Next ==
    /\ \/ StartStep
       \/ LoginResolveStep
       \/ LoginRejectStep
       \/ ClientReadyStep
       \/ StopStep
       \/ DestroyResolveStep
       \/ DestroyRejectStep
    /\ UNCHANGED <<modVars, authVars, rateVars, cleanupVars, credVars, verdictVars>>

Spec == Init /\ [][Next]_vars

\* the dispatch operations called directly, among starts and stops
InitDispatch ==
    /\ activeBots = <<>>
    /\ clients = <<>>
    /\ calls = <<>>
    /\ toolCalls = <<>>
    /\ budget = MaxSetup
    /\ ModInit
    /\ AuthInit
    /\ RateInit
    /\ CleanupInit /\ CredInit /\ VerdictInit

NextDispatch ==
    /\ \/ StartStep
       \/ LoginResolveStep
       \/ LoginRejectStep
       \/ StopStep
       \/ DestroyResolveStep
       \/ DestroyRejectStep
       \/ DispatchStep
       \/ PlatformResolveStep
       \/ PlatformResolveNullStep
       \/ PlatformRejectStep
    /\ UNCHANGED <<modVars, authVars, rateVars, cleanupVars, credVars, verdictVars>>

SpecDispatch == InitDispatch /\ [][NextDispatch]_vars

\* the registry used through the MCP server
InitGateway ==
    /\ activeBots = <<>>
    /\ clients = <<>>
    /\ calls = <<>>
    /\ toolCalls = <<>>
    /\ budget = MaxSetup
    /\ enabled \in BOOLEAN
    /\ forbiddenWords = DefaultForbiddenWords
    /\ AuthInit
    /\ RateInit
    /\ CleanupInit /\ CredInit /\ VerdictInit

NextGateway ==
    /\ \/ StartStep
       \/ LoginResolveStep
       \/ LoginRejectStep
       \/ StopStep
       \/ DestroyResolveStep
       \/ DestroyRejectStep
       \/ CallToolStep
       \/ PlatformResolveStep
       \/ PlatformResolveNullStep
       \/ PlatformRejectStep
    /\ UNCHANGED <<modVars, authVars, rateVars, cleanupVars, credVars, verdictVars>>

SpecGateway == InitGateway /\ [][NextGateway]_vars

\* the permission predicate and the middleware built on it
Requests ==
    {Request(u, p, b) : u \in BOOLEAN, p \in PermissionValues, b \in TenantIds \cup {""}}

\* a request waits for a middleware
InitAccess ==
    /\ RegistryInit
    /\ ModInit
    /\ RateInit
    /\ CleanupInit /\ CredInit /\ VerdictInit
    /\ apiKeys = <<>>
    /\ users = <<>>
    /\ logs = {}
    /\ issued = {}
    /\ http \in {[mw |-> "pending", req |-> req, permission |-> r,
                  res |-> Response(0, "", FALSE, ""), value |-> FALSE] :
                    req \in Requests, r \in Permissions}

NextAccess ==
    /\ \/ HasPermissionCall
       \/ RequirePermission
       \/ RequireBotAccess
    /\ UNCHANGED <<registryVars, modVars, rateVars, cleanupVars, credVars, verdictVars>>

SpecAccess == InitAccess /\ [][NextAccess]_vars

\* users and API keys
PermissionArgs == {<<>>, <<"send_message">>, <<"admin", "*">>}

CreateUserStep ==
    \E n \in {"admin", "alice"}, pw \in Passwords, p \in PermissionArgs :
        createUser(n, pw, p)

CreateApiKeyStep ==
    \E u \in 1..(MaxUsers + 1), p \in PermissionArgs : createApiKey(u, p)

InitializeDefaultUserStep ==
    initializeDefaultUser

NextAuth ==
    /\ \/ CreateUserStep
       \/ CreateApiKeyStep
       \/ InitializeDefaultUserStep
    /\ UNCHANGED <<registryVars, modVars, rateVars, cleanupVars, credVars, verdictVars>>

SpecAuth == Init /\ [][NextAuth]_vars

\* API keys created and validated while the clock runs
ValidateApiKeyStep ==
    /\ \E k \in Secrets \cup {NoKey} : validateApiKey(k)
    /\ UNCHANGED rateVars

KeyUsers == {1, 2}

CreateKeyStep ==
    /\ \E u \in KeyUsers, p \in {<<"send_message">>, <<"admin", "*">>} :
          createApiKey(u, p)
    /\ UNCHANGED <<credVars, rateVars>>

KeyTickStep ==
    /\ Tick
    /\ UNCHANGED <<authVars, credVars>>

NextKeys ==
    /\ \/ CreateKeyStep
       \/ ValidateApiKeyStep
       \/ KeyTickStep
    /\ UNCHANGED <<registryVars, modVars, cleanupVars, verdictVars>>

SpecKeys == Init /\ [][NextKeys]_vars

\* tokens issued and verified around their expiry: the instants are the two
\* ends of the seconds just after issue and just around the lifetime
Instants ==
    {sec * 1000 + ms : sec \in {0, 1, TokenTtl - 1, TokenTtl, TokenTtl + 1},
                       ms \in {0, 999}}

ClockStep ==
    /\ \E t \in Instants : t > now /\ now' = t
    /\ UNCHANGED <<limiter, requests, rlLog, authVars, credVars>>

GenerateTokenStep ==
    /\ \E u \in KeyUsers, p \in {<<"send_message">>, <<"admin", "*">>} :
          generateToken(u, p)
    /\ UNCHANGED rateVars

\* the tokens a caller may present: issued ones and forgeries of them
Presented ==
    tokens \cup {sign(t.payload, OtherSecret) : t \in tokens}

VerifyTokenStep ==
    /\ \E t \in Presented : verifyToken(t)
    /\ UNCHANGED rateVars

NextToken ==
    /\ \/ GenerateTokenStep
       \/ VerifyTokenStep
       \/ ClockStep
    /\ UNCHANGED <<registryVars, modVars, cleanupVars, verdictVars>>

SpecToken == Init /\ [][NextToken]_vars

\* the rule pipeline on its own: one content, drawn from every combination
\* of what the rules measure, is moderated under either setting of the switch
WordSets ==
    {{}, {"hello"}, {"spam"}, {"scam", "hello"}, {"spam", "malware"},
     {"spam", "scam", "malware"}, {"spam", "scam", "malware", "hello"}}

ModerationContents ==
    {[isString |-> str, length |-> len, words |-> w, spam |-> sp, suspicious |-> su,
      mentions |-> me, emojis |-> em, letters |-> caps[1], upper |-> caps[2]] :
        str \in BOOLEAN, len \in {5, MaxMessageLength, MaxMessageLength + 1},
        w \in WordSets, sp \in {{}, {1}, {2, 3}}, su \in {0, 3}, me \in {5, 6},
        em \in {0, 11}, caps \in {<<5, 5>>, <<20, 14>>, <<20, 15>>}}

InitModeration ==
    /\ RegistryInit /\ AuthInit /\ RateInit /\ CleanupInit /\ CredInit
    /\ enabled \in BOOLEAN
    /\ forbiddenWords = DefaultForbiddenWords
    /\ moderation \in {[NoModeration EXCEPT !.state = "pending", !.content = c] :
                          c \in ModerationContents}
    /\ behavior = NoBehavior
    /\ wordLog = <<>>

ModerateContentStep ==
    ModerateContent

\* the word list is changed before the content is moderated
AddForbiddenWordStep ==
    /\ moderation.state = "pending"
    /\ \E w \in {"hello"} : addForbiddenWord(w)

RemoveForbiddenWordStep ==
    /\ moderation.state = "pending"
    /\ \E w \in {"spam"} : removeForbiddenWord(w)

NextModeration ==
    /\ \/ ModerateContentStep
       \/ AddForbiddenWordStep
       \/ RemoveForbiddenWordStep
    /\ UNCHANGED <<registryVars, authVars, rateVars, cleanupVars, credVars>>

SpecModeration == InitModeration /\ [][NextModeration]_vars

\* the forbidden-word list edited with strings as callers may write them
AddWordStep ==
    \E w \in RawWords : addForbiddenWord(w)

RemoveWordStep ==
    \E w \in RawWords : removeForbiddenWord(w)

NextWords ==
    /\ \/ AddWordStep
       \/ RemoveWordStep
    /\ UNCHANGED <<registryVars, authVars, rateVars, cleanupVars, credVars>>

SpecWords == Init /\ [][NextWords]_vars

\* moderateUserBehavior called again and again inside one minute
ModerateUserBehaviorStep ==
    /\ \E k \in BehaviorKeys : moderateUserBehavior(k[1], k[2])
    /\ UNCHANGED rateVars

BehaviorTickStep ==
    /\ TickSecond
    /\ UNCHANGED <<modVars, verdictVars>>

NextBehavior ==
    /\ \/ ModerateUserBehaviorStep
       \/ BehaviorTickStep
    /\ UNCHANGED <<registryVars, authVars, cleanupVars, credVars>>

SpecBehavior == Init /\ [][NextBehavior]_vars

\* bots started and stopped, and cleanup called at shutdown; a stopBot call
\* that ends lets the cleanup awaiting it go on
LifecycleStep ==
    \/ StartStep
    \/ LoginResolveStep
    \/ LoginRejectStep
    \/ StopStep
    \/ DestroyResolveStep
    \/ DestroyRejectStep

CleanupStep ==
    cleanup

InitShutdown ==
    InitDispatch

NextShutdown ==
    /\ \/ LifecycleStep /\ cleanups' = Settled(cleanups, calls')
       \/ CleanupStep
    /\ UNCHANGED <<modVars, authVars, rateVars, credVars, verdictVars>>

SpecShutdown == InitShutdown /\ [][NextShutdown]_vars

\* the dispatch operations on bots whose connection the platform may drop
ClientDisconnectStep ==
    \E c \in DOMAIN clients : ClientDisconnect(c)

NextConnection ==
    /\ \/ StartStep
       \/ LoginResolveStep
       \/ LoginRejectStep
       \/ ClientDisconnectStep
       \/ StopStep
       \/ DestroyResolveStep
       \/ DestroyRejectStep
       \/ DispatchStep
       \/ PlatformResolveStep
       \/ PlatformResolveNullStep
       \/ PlatformRejectStep
    /\ UNCHANGED <<modVars, authVars, rateVars, cleanupVars, credVars, verdictVars>>

SpecConnection == InitDispatch /\ [][NextConnection]_vars

\* one rate limiter and the keys of its callers
LimiterKeys == {"user1", "10.0.0.1"}

InitRate ==
    /\ RegistryInit
    /\ ModInit
    /\ AuthInit
    /\ CleanupInit /\ CredInit /\ VerdictInit
    /\ limiter \in {[windowMs |-> w, maxRequests |-> m] :
                       w \in 1..MaxWindow, m \in 1..MaxLimit}
    /\ requests = <<>>
    /\ now = 0
    /\ rlLog = <<>>

RateLimitStep ==
    \E k \in LimiterKeys : RateLimit(k)

NextRate ==
    /\ \/ RateLimitStep
       \/ Tick
    /\ UNCHANGED <<registryVars, modVars, authVars, cleanupVars, credVars, verdictVars>>

SpecRate == InitRate /\ [][NextRate]_vars

\* a limiter whose window is whole seconds long, on a clock of seconds
InitRetry ==
    /\ RegistryInit
    /\ ModInit
    /\ AuthInit
    /\ CleanupInit /\ CredInit /\ VerdictInit
    /\ limiter \in {[windowMs |-> w * 1000, maxRequests |-> m] :
                       w \in 1..MaxWindow, m \in 1..MaxLimit}
    /\ requests = <<>>
    /\ now = 0
    /\ rlLog = <<>>

TickSecondStep ==
    TickSecond

NextRetry ==
    /\ \/ RateLimitStep
       \/ TickSecondStep
    /\ UNCHANGED <<registryVars, modVars, authVars, cleanupVars, credVars, verdictVars>>

SpecRetry == InitRetry /\ [][NextRetry]_vars

(***************************************************************************)
(* Properties                                                              *)
(***************************************************************************)

\* C1: for every bot id, at most one connection that has been opened and
\* not yet destroyed exists at any time, whatever the interleaving of the
\* startBot calls.
C1_AtMostOneLiveConnection ==
    \A b \in BotIds :
        Cardinality({c \in DOMAIN clients :
                        clients[c].bot = b /\ clients[c].state = "open"}) <= 1

C4_DispatchNeedsSession ==
    /\ [](\A i \in DOMAIN calls :
            (calls[i].op \in DispatchOps /\ ~calls[i].seen) =>
                /\ calls[i].result = "NotRunning"
                /\ calls[i].pcalls = 0)
    /\ [][\A b \in BotIds :
            (/\ Len(calls') = Len(calls) + 1
             /\ calls'[Len(calls')].op \in DispatchOps
             /\ calls'[Len(calls')].bot = b
             /\ ~has(activeBots, b)) =>
                /\ calls'[Len(calls')].result = "NotRunning"
                /\ calls'[Len(calls')].pcalls = 0
                /\ calls'[Len(calls')].pc = "done"]_vars

\* a dispatch operation was refused on a bot that had been started and stopped
C4_Witness ==
    \E i, j \in DOMAIN calls :
        /\ j < i
        /\ calls[j].op = "stopBot" /\ calls[j].result = "true"
        /\ calls[i].op \in DispatchOps /\ calls[i].bot = calls[j].bot
        /\ calls[i].result = "NotRunning"

\* C5: a session operation is invoked for a tool call only after the call
\* has been authenticated and authorized.
C5_AuthBeforeSession ==
    \A t \in DOMAIN toolCalls :
        toolCalls[t].call # 0 =>
            \E p, q \in DOMAIN toolCalls[t].stages :
                /\ p < q
                /\ toolCalls[t].stages[p] = "authenticate"
                /\ toolCalls[t].stages[q] = "authorize"
                /\ \A d \in DOMAIN toolCalls[t].stages :
                      toolCalls[t].stages[d] = "dispatch" => q < d

\* C6: a send_discord_message call whose content the moderation does not
\* approve never invokes sendMessage and answers with the verdict's reason,
\* severity and actions; a call that does invoke sendMessage was moderated
\* first.
C6_ModerationBeforeSend ==
    \A t \in DOMAIN toolCalls :
        (toolCalls[t].name = "send_discord_message" /\ ~MissingParameter(toolCalls[t])) =>
            IF ~moderateContent(toolCalls[t].args.content).isApproved
            THEN /\ toolCalls[t].call = 0
                 /\ \A i \in DOMAIN calls : calls[i].tool # t
                 /\ toolCalls[t].responded
                 /\ ~toolCalls[t].envelope.isError
                 /\ toolCalls[t].envelope.text =
                       [success  |-> FALSE,
                        error    |-> "Content moderation failed",
                        reason   |-> moderateContent(toolCalls[t].args.content).reason,
                        severity |-> moderateContent(toolCalls[t].args.content).severity,
                        actions  |-> moderateContent(toolCalls[t].args.content).actions]
            ELSE /\ toolCalls[t].call # 0
                 /\ toolCalls[t].stages = <<"validate", "moderate", "dispatch">>
                 /\ calls[toolCalls[t].call].op = "sendMessage"

\* a message with a forbidden word was refused although its bot is running
C6_Witness ==
    \E t \in DOMAIN toolCalls :
        /\ toolCalls[t].name = "send_discord_message"
        /\ ~MissingParameter(toolCalls[t])
        /\ ~moderateContent(toolCalls[t].args.content).isApproved
        /\ has(activeBots, toolCalls[t].args.botId)
        /\ toolCalls[t].responded
        /\ toolCalls[t].envelope.text.severity = "medium"

\* C7: of max+1 limiter calls for one key inside one window that starts
\* with no admitted call of that key left in it, the first max are admitted
\* and the (max+1)-th is rejected; a call made when every admitted call of
\* its key lies a full window or more in the past is admitted.
C7_SlidingWindow ==
    \A p, q \in DOMAIN rlLog :
        LET k        == rlLog[p].key
            W        == limiter.windowMs
            sameKey  == {i \in DOMAIN rlLog : rlLog[i].key = k}
            fresh    == \A i \in sameKey :
                            (i < p /\ rlLog[i].admitted) =>
                                rlLog[p].time - rlLog[i].time >= W
            n        == Cardinality({i \in sameKey : p <= i /\ i <= q})
        IN  (/\ fresh
             /\ q \in sameKey
             /\ p <= q
             /\ rlLog[q].time - rlLog[p].time < W) =>
                /\ n <= limiter.maxRequests => rlLog[q].admitted
                /\ n = limiter.maxRequests + 1 =>
                      /\ ~rlLog[q].admitted
                      /\ rlLog[q].code = "RATE_LIMIT_EXCEEDED"

\* two calls admitted, a third rejected inside the window, a fourth admitted
\* once the window has passed
C7_Witness ==
    /\ limiter.maxRequests = 2
    /\ Len(rlLog) = 4
    /\ \A i \in 1..4 : rlLog[i].key = rlLog[1].key
    /\ rlLog[3].time - rlLog[1].time < limiter.windowMs
    /\ rlLog[1].admitted /\ rlLog[2].admitted /\ ~rlLog[3].admitted
    /\ rlLog[4].time - rlLog[2].time >= limiter.windowMs
    /\ rlLog[4].admitted

\* C8: hasPermission(granted, required) is true exactly when granted is a
\* list that holds required, 'admin' or '*'.
C8_HasPermissionIff ==
    http.mw = "hasPermission" =>
        LET granted == {http.req.permissions.items[i] :
                            i \in DOMAIN http.req.permissions.items}
        IN  http.value <=>
                /\ http.req.permissions.isArray
                /\ \/ http.permission \in granted
                   \/ "admin" \in granted
                   \/ "*" \in granted

\* the wildcard alone grants a permission that is not listed
C8_Witness ==
    /\ http.mw = "hasPermission"
    /\ http.value
    /\ http.req.permissions.items = <<"bot:B", "*">>
    /\ http.permission = "send_message"

\* C9: requireBotAccess lets a request for bot X through exactly when the
\* principal holds 'admin', '*' or the string 'bot:X'; any other principal
\* gets 403 BOT_ACCESS_DENIED and next() is not called.
C9_TenantAccess ==
    (http.mw = "requireBotAccess" /\ http.req.hasUser /\ http.req.botId # "") =>
        LET granted == {http.req.permissions.items[i] :
                            i \in DOMAIN http.req.permissions.items}
            scoped  == CASE http.req.botId = "A"  -> "bot:A"
                         [] http.req.botId = "B"  -> "bot:B"
                         [] http.req.botId = "AB" -> "bot:AB"
            allowed == /\ http.req.permissions.isArray
                       /\ \/ "admin" \in granted
                          \/ "*" \in granted
                          \/ scoped \in granted
        IN  IF allowed
            THEN /\ http.res.next
                 /\ http.res.botId = http.req.botId
            ELSE /\ ~http.res.next
                 /\ http.res.status = 403
                 /\ http.res.code = "BOT_ACCESS_DENIED"

\* an operation permission and another tenant's permission do not open bot A
C9_Witness ==
    /\ http.mw = "requireBotAccess"
    /\ http.req.hasUser
    /\ http.req.botId = "A"
    /\ http.req.permissions.items = <<"send_message", "bot:AB">>
    /\ http.res.code = "BOT_ACCESS_DENIED"
    /\ ~http.res.next

\* C10: once createApiKey has returned, neither the keys nor the values of
\* the apiKeys map, nor anything logged, holds the plaintext key.
C10_PlaintextNotKept ==
    \A secret \in issued :
        /\ secret \notin DOMAIN apiKeys
        /\ \A k \in DOMAIN apiKeys : apiKeys[k].hashedKey # secret
        /\ \A entry \in logs : secret \notin entry.secrets

\* C11: validateApiKey(secret) returns the user id and permissions of the
\* key created with that secret exactly when such a key is stored and
\* active; on success it sets that key's lastUsed to the current time and
\* touches no other key; on failure it returns null and leaves apiKeys as it
\* is.
C11_ValidateApiKey ==
    [][(/\ Len(authLog') = Len(authLog) + 1
        /\ authLog'[Len(authLog')].fn = "validateApiKey") =>
          LET e     == authLog'[Len(authLog')]
              valid == /\ e.arg \in issued
                       /\ has(apiKeys, e.arg)
                       /\ apiKeys[e.arg].isActive
          IN  /\ e.ok <=> valid
              /\ valid =>
                    /\ e.principal.userId = apiKeys[e.arg].userId
                    /\ e.principal.permissions = apiKeys[e.arg].permissions
                    /\ apiKeys'[e.arg].lastUsed = <<now>>
                    /\ DOMAIN apiKeys' = DOMAIN apiKeys
                    /\ \A k \in DOMAIN apiKeys :
                          /\ k # e.arg => apiKeys'[k] = apiKeys[k]
                          /\ apiKeys'[k] = [apiKeys[k] EXCEPT !.lastUsed = apiKeys'[k].lastUsed]
              /\ ~valid =>
                    /\ e.principal = NoPrincipal
                    /\ apiKeys' = apiKeys]_vars

\* with two keys stored, one call was refused for a missing key and a later
\* call returned the owner of the second key and stamped that key only
C11_Witness ==
    /\ Len(authLog) = 2
    /\ Cardinality(DOMAIN apiKeys) = 2
    /\ authLog[1].fn = "validateApiKey" /\ ~authLog[1].ok
    /\ authLog[2].fn = "validateApiKey" /\ authLog[2].ok
    /\ authLog[2].time > 0
    /\ apiKeys[authLog[2].arg].lastUsed = <<authLog[2].time>>
    /\ authLog[2].principal.userId = apiKeys[authLog[2].arg].userId
    /\ \E k \in DOMAIN apiKeys : apiKeys[k].lastUsed = <<>>

\* C12: a token generateToken issued for a user id and permissions carries
\* an expiry 24 hours after its issue time, both in whole seconds as the
\* token records them; verifyToken returns that user id and those
\* permissions at every verification made while the clock's second is below
\* the expiry, and returns null at every verification made once it is not,
\* whether or not the token verified before.
C12_TokenExpiry ==
    /\ [](\A i \in DOMAIN authLog :
            (authLog[i].fn = "verifyToken" /\ authLog[i].arg \in tokens) =>
                LET t == authLog[i].arg
                IN  /\ t.payload.exp = t.payload.iat + 24 * 3600
                    /\ IF epochSeconds(authLog[i].time) < t.payload.exp
                       THEN /\ authLog[i].ok
                            /\ authLog[i].principal.userId = t.payload.userId
                            /\ authLog[i].principal.permissions = t.payload.permissions
                       ELSE /\ ~authLog[i].ok
                            /\ authLog[i].principal = NoPrincipal)
    /\ [][\A t \in tokens' \ tokens : t.payload.iat = epochSeconds(now)]_vars

\* one token verified in the last second of its life and was refused in the
\* next one
C12_Witness ==
    /\ Len(authLog) = 2
    /\ authLog[1].fn = "verifyToken" /\ authLog[2].fn = "verifyToken"
    /\ authLog[1].arg \in tokens
    /\ authLog[2].arg = authLog[1].arg
    /\ authLog[1].ok /\ ~authLog[2].ok
    /\ epochSeconds(authLog[1].time) = authLog[1].arg.payload.exp - 1
    /\ epochSeconds(authLog[2].time) = authLog[1].arg.payload.exp

\* C13: with moderation enabled and at least one rule reporting a
\* violation, moderateContent returns the violation of the highest severity
\* (low < medium < high < critical), and among the violations of that
\* severity the one of the earliest rule in the order length, forbidden
\* words, spam, suspicious, mentions, emojis, caps; spam together with
\* suspicious keywords gives the spam verdict with actions warn, delete.
C13_WorstViolationEarliestRule ==
    (moderation.state = "done" /\ enabled /\ moderation.content.isString) =>
        LET res    == [i \in 1..7 |-> moderation.evaluated[i].result]
            V      == {i \in 1..7 : ~res[i].isApproved}
            rank   == [i \in 1..7 |->
                         CASE res[i].severity = "low" -> 1
                           [] res[i].severity = "medium" -> 2
                           [] res[i].severity = "high" -> 3
                           [] res[i].severity = "critical" -> 4]
            best   == {i \in V : \A j \in V : rank[j] < rank[i] \/ (rank[j] = rank[i] /\ i <= j)}
        IN  /\ Len(moderation.evaluated) = 7
            /\ \A i \in 1..7 : moderation.evaluated[i].rule = ruleNames[i]
            /\ V # {} =>
                  /\ Cardinality(best) = 1
                  /\ \A i \in best : moderation.verdict = res[i]
                  /\ ~moderation.verdict.isApproved
            /\ (V # {} /\ 3 \in V /\ 4 \in V /\ 1 \notin V /\ 2 \notin V) =>
                  /\ moderation.verdict.reason = "Spam pattern detected"
                  /\ moderation.verdict.severity = "medium"
                  /\ moderation.verdict.actions = <<"warn", "delete">>

\* spam, suspicious keywords, mentions and caps all tripped: the spam
\* verdict was returned
C13_Witness ==
    /\ moderation.state = "done" /\ enabled /\ moderation.content.isString
    /\ moderation.content.spam # {}
    /\ moderation.content.suspicious >= 3
    /\ moderation.content.mentions > 5
    /\ moderation.content.upper = 15
    /\ moderation.content.words = {"hello"}
    /\ moderation.content.length = 5
    /\ moderation.verdict.reason = "Spam pattern detected"
    /\ moderation.verdict.actions = <<"warn", "delete">>

\* C14: with moderation enabled, the forbidden-word rule grades a content
\* that contains n distinct forbidden words as a violation of severity
\* medium with actions warn when 1 <= n < 3 and of severity high with
\* actions delete, warn, timeout when n >= 3; moderateContent returns that
\* violation whenever n >= 3, and whenever 1 <= n < 3 and the length rule is
\* satisfied; a content that trips no rule is approved.
C14_ForbiddenWordGrades ==
    (moderation.state = "done" /\ enabled /\ moderation.content.isString) =>
        LET n      == Cardinality(moderation.content.words \cap forbiddenWords)
            fw     == moderation.evaluated[2].result
            clean  == \A i \in 1..7 : moderation.evaluated[i].result.isApproved
        IN  /\ n = 0 => fw.isApproved
            /\ (1 <= n /\ n < 3) =>
                  /\ ~fw.isApproved
                  /\ fw.severity = "medium"
                  /\ fw.actions = <<"warn">>
                  /\ moderation.content.length <= MaxMessageLength =>
                        moderation.verdict = fw
            /\ n >= 3 =>
                  /\ ~fw.isApproved
                  /\ fw.severity = "high"
                  /\ fw.actions = <<"delete", "warn", "timeout">>
                  /\ moderation.verdict = fw
            /\ clean =>
                  /\ moderation.verdict.isApproved
                  /\ moderation.verdict.reason = "Content approved"

\* four forbidden words, one of them added at run time, gave the high
\* verdict although the message was too long as well
C14_Witness ==
    /\ moderation.state = "done" /\ enabled /\ moderation.content.isString
    /\ Cardinality(moderation.content.words \cap forbiddenWords) = 4
    /\ moderation.content.length > MaxMessageLength
    /\ moderation.verdict.severity = "high"
    /\ moderation.verdict.actions = <<"delete", "warn", "timeout">>

\* C15: with moderation disabled, moderateContent approves every content
\* and evaluates none of the rules.
C15_DisabledShortCircuit ==
    (moderation.state = "done" /\ ~enabled) =>
        /\ moderation.verdict.isApproved
        /\ moderation.verdict.reason = "Content moderation disabled"
        /\ moderation.evaluated = <<>>

\* a too long message with three forbidden words went through unexamined
C15_Witness ==
    /\ moderation.state = "done" /\ ~enabled
    /\ moderation.content.isString
    /\ moderation.content.length > MaxMessageLength
    /\ Cardinality(moderation.content.words \cap forbiddenWords) = 3
    /\ moderation.verdict.isApproved
    /\ moderation.evaluated = <<>>

\* C16: with moderation enabled, a content whose evaluation throws inside a
\* rule (a value that is not a string) is approved by moderateContent, the
\* failure is not propagated, and send_discord_message passes that content
\* on to sendMessage.
C16_ModerationFailsOpen ==
    \A t \in DOMAIN toolCalls :
        (/\ enabled
         /\ ~toolCalls[t].args.content.isString
         /\ ~MissingParameter(toolCalls[t])) =>
            /\ toolCalls[t].name = "moderate_discord_content" =>
                  /\ toolCalls[t].responded
                  /\ ~toolCalls[t].envelope.isError
                  /\ toolCalls[t].envelope.text.moderation.isApproved
                  /\ toolCalls[t].envelope.text.moderation.reason = "Moderation check failed"
            /\ toolCalls[t].name = "send_discord_message" =>
                  /\ toolCalls[t].stages = <<"validate", "moderate", "dispatch">>
                  /\ toolCalls[t].call # 0
                  /\ calls[toolCalls[t].call].op = "sendMessage"
                  /\ calls[toolCalls[t].call].tool = t
                  /\ (toolCalls[t].responded /\ toolCalls[t].envelope.isError) =>
                        calls[toolCalls[t].call].result # "ok"

\* a value that is not a string was sent through a running bot
C16_Witness ==
    \E t \in DOMAIN toolCalls :
        /\ enabled
        /\ toolCalls[t].name = "send_discord_message"
        /\ ~toolCalls[t].args.content.isString
        /\ toolCalls[t].call # 0
        /\ calls[toolCalls[t].call].op = "sendMessage"
        /\ calls[toolCalls[t].call].pcalls = 2
        /\ calls[toolCalls[t].call].result = "ok"

\* C17: a bot is in the registry, and startBot has returned its record,
\* only when the client of that record has emitted 'ready'.
C17_RegisteredOnlyWhenReady ==
    /\ \A b \in DOMAIN activeBots : clients[activeBots[b].client].ready
    /\ \A i \in DOMAIN calls :
          (calls[i].op = "startBot" /\ calls[i].result = "client") =>
              clients[calls[i].client].ready

\* C18: cleanup calls stopBot for every registered bot, and when it returns
\* every one of those calls has ended, each call that failed is among the
\* failures cleanup reports, and each bot whose stop succeeded has been
\* removed from the registry by it.
C18_ShutdownCollectsFailures ==
    \A c \in DOMAIN cleanups :
        cleanups[c].pc = "done" =>
            \A i \in cleanups[c].stops :
                /\ calls[i].pc = "done"
                /\ calls[i].result = "throw" => i \in cleanups[c].logged
                /\ calls[i].result = "true" =>
                      clients[calls[i].client].state = "destroyed"

\* C19: a startBot or stopBot call that fails changes nothing in the
\* registry, neither when it is made nor when it fails: after a failed
\* login the id has no entry made by that call (none at all if it had none
\* when the login failed), and after a failed destroy the entry of the id
\* is still in place.
C19_FailureLeavesRegistry ==
    /\ [][\A i \in DOMAIN calls :
            (/\ calls[i].op \in LifecycleOps
             /\ calls[i].pc # "done"
             /\ calls'[i].result = "throw") =>
                /\ activeBots' = activeBots
                /\ (calls[i].op = "startBot" /\ has(activeBots', calls[i].bot)) =>
                      activeBots'[calls[i].bot].client # calls[i].client
                /\ (calls[i].op = "stopBot" /\ has(activeBots, calls[i].bot)) =>
                      has(activeBots', calls[i].bot)]_vars
    /\ [][Len(calls') > Len(calls) => activeBots' = activeBots]_vars
    /\ [](\A i \in DOMAIN calls :
            (calls[i].op = "startBot" /\ calls[i].result = "throw") =>
                \A b \in DOMAIN activeBots : activeBots[b].client # calls[i].client)

\* a login failed and left no entry; a destroy failed and left the entry
C19_Witness ==
    \E i, j \in DOMAIN calls :
        /\ calls[i].op = "startBot" /\ calls[i].result = "throw"
        /\ ~has(activeBots, calls[i].bot)
        /\ calls[j].op = "stopBot" /\ calls[j].result = "throw"
        /\ has(activeBots, calls[j].bot)
        /\ activeBots[calls[j].bot].client = calls[j].client
        /\ clients[calls[j].client].state = "open"

\* C20: no two startBot / stopBot calls for one id are between their look
\* at the registry and their update of it at the same time.
C20_MutationsExclusive ==
    \A i, j \in DOMAIN calls :
        (/\ i < j
         /\ calls[i].op \in LifecycleOps
         /\ calls[j].op \in LifecycleOps
         /\ calls[i].bot = calls[j].bot) =>
            ~(calls[i].pc # "done" /\ calls[j].pc # "done")

\* C21: a dispatch operation that is awaiting the platform when stopBot has
\* destroyed the client it uses does not end with success: it ends with a
\* failure.
C21_StoppedFailsInFlight ==
    [][\A i \in DOMAIN calls :
          (/\ calls[i].op \in DispatchOps
           /\ calls[i].pc = "awaitPlatform"
           /\ clients[calls[i].client].state = "destroyed"
           /\ calls'[i].pc = "done") =>
              calls'[i].result # "ok"]_vars

\* C22: a bot whose connection the platform has dropped is not reported as
\* active by getAllBots, and a dispatch operation called on it fails with
\* the not-running error, until it is started again.
C22_DisconnectedNotActive ==
    /\ [](\A r \in getAllBots :
            r.isActive => clients[activeBots[r.id].client].state # "disconnected")
    /\ [][\A b \in BotIds :
            (/\ Len(calls') = Len(calls) + 1
             /\ calls'[Len(calls')].op \in DispatchOps
             /\ calls'[Len(calls')].bot = b
             /\ has(activeBots, b)
             /\ clients[activeBots[b].client].state = "disconnected") =>
                calls'[Len(calls')].result = "NotRunning"]_vars

\* C23: a limiter call leaves the timestamp list of every other key as it
\* was; to the list of its own key, once the entries that have left the
\* window are dropped, a rejected call adds nothing and an admitted call
\* adds exactly one entry, the time of the call.
C23_LimiterFrame ==
    [][Len(rlLog') = Len(rlLog) + 1 =>
          LET e    == rlLog'[Len(rlLog')]
              old  == IF e.key \in DOMAIN requests THEN requests[e.key] ELSE <<>>
              kept == SelectSeq(old, LAMBDA t : e.time - t < limiter.windowMs)
          IN  /\ DOMAIN requests' = DOMAIN requests \cup {e.key}
              /\ \A k \in DOMAIN requests \ {e.key} : requests'[k] = requests[k]
              /\ e.admitted => requests'[e.key] = Append(kept, e.time)
              /\ ~e.admitted => requests'[e.key] = kept]_vars

\* a call was rejected while the other key had an entry in its window, and
\* an earlier admitted call had dropped an entry that had left the window
C23_Witness ==
    /\ Len(rlLog) = 4
    /\ rlLog[1].admitted /\ rlLog[2].admitted /\ rlLog[3].admitted
    /\ ~rlLog[4].admitted
    /\ rlLog[1].key = rlLog[3].key /\ rlLog[3].key = rlLog[4].key
    /\ rlLog[2].key # rlLog[1].key
    /\ limiter.maxRequests = 1
    /\ requests[rlLog[4].key] = <<rlLog[3].time>>
    /\ requests[rlLog[2].key] = <<rlLog[2].time>>
    /\ rlLog[3].time > rlLog[1].time

\* C24: after a limiter call for key k the timestamp list of k is
\* non-decreasing, has at most maxRequests entries and has no entry a full
\* window or more older than the time of that call.
C24_WindowInvariant ==
    \A k \in DOMAIN requests :
        LET calls_k == {i \in DOMAIN rlLog : rlLog[i].key = k}
            last    == CHOOSE i \in calls_k : \A j \in calls_k : j <= i
        IN  /\ calls_k # {}
            /\ \A p, q \in DOMAIN requests[k] : p <= q => requests[k][p] <= requests[k][q]
            /\ Len(requests[k]) <= limiter.maxRequests
            /\ \A p \in DOMAIN requests[k] :
                  rlLog[last].time - requests[k][p] < limiter.windowMs

\* a full list of two entries made at different times, after an older entry
\* had been dropped
C24_Witness ==
    \E k \in DOMAIN requests :
        /\ limiter.maxRequests = 2
        /\ Len(requests[k]) = 2
        /\ requests[k][1] < requests[k][2]
        /\ Cardinality({i \in DOMAIN rlLog : rlLog[i].key = k /\ rlLog[i].admitted}) = 3

\* C25: a rejection carries as retryAfter the time, in seconds rounded up,
\* until the oldest timestamp still in the window of its key leaves the
\* window.
C25_RetryAfterRemaining ==
    \A i \in DOMAIN rlLog :
        ~rlLog[i].admitted =>
            LET inWindow == {rlLog[j].time : j \in {x \in 1..(i - 1) :
                                /\ rlLog[x].key = rlLog[i].key
                                /\ rlLog[x].admitted
                                /\ rlLog[i].time - rlLog[x].time < limiter.windowMs}}
                oldest   == CHOOSE t \in inWindow : \A u \in inWindow : t <= u
            IN  /\ inWindow # {}
                /\ rlLog[i].retryAfter =
                      ceilSeconds(oldest + limiter.windowMs - rlLog[i].time)

\* C26: every stored API key belongs to a user that is in the user store:
\* createApiKey for an id that is not registered stores nothing.
C26_KeyNeedsUser ==
    \A k \in DOMAIN apiKeys : apiKeys[k].userId \in DOMAIN users

\* C27: two failing verifyToken calls whose tokens fail for different
\* reasons, one expired and one signed with another secret, give their
\* callers different outcomes.
C27_FailuresDistinct ==
    \A i, j \in DOMAIN authLog :
        LET cause(e) == IF e.arg.signature # JwtSecret THEN "SignatureInvalid"
                        ELSE IF epochSeconds(e.time) >= e.arg.payload.exp
                        THEN "ExpiredToken" ELSE "none"
            outcome(e) == [ok |-> e.ok, principal |-> e.principal]
        IN  (/\ authLog[i].fn = "verifyToken" /\ authLog[j].fn = "verifyToken"
             /\ ~authLog[i].ok /\ ~authLog[j].ok
             /\ cause(authLog[i]) # cause(authLog[j])) =>
                outcome(authLog[i]) # outcome(authLog[j])

C30_AddThenRemoveRestores ==
    \A i \in DOMAIN wordLog :
        (/\ i < Len(wordLog)
         /\ wordLog[i].fn = "add"
         /\ wordLog[i].returned
         /\ wordLog[i].after # wordLog[i].before
         /\ wordLog[i + 1].fn = "remove"
         /\ wordLog[i + 1].word = wordLog[i].word) =>
            /\ wordLog[i + 1].returned
            /\ wordLog[i + 1].after = wordLog[i].before

\* C29: the CallTool handler answers every call with one envelope and never
\* lets an error escape: a call that has ended has its envelope, the envelope
\* once given never changes, it is an error envelope with code
\* TOOL_EXECUTION_ERROR exactly when the tool is unknown, a required
\* parameter is missing or the session operation failed, and a message
\* refused by moderation is answered by a non-error envelope whose payload
\* has success = false.
C29_OneEnvelopeNeverThrows ==
    /\ [](\A i \in DOMAIN toolCalls :
            LET r       == toolCalls[i]
                ended   == r.call = 0 \/ calls[r.call].pc = "done"
                failed  == \/ r.name \notin ToolNames
                           \/ MissingParameter(r)
                           \/ r.call # 0 /\ calls[r.call].result # "ok"
                refused == /\ r.name = "send_discord_message"
                           /\ ~MissingParameter(r)
                           /\ ~moderateContent(r.args.content).isApproved
            IN  /\ r.responded <=> ended
                /\ ~r.responded => r.envelope = NoEnvelope
                /\ r.responded =>
                      /\ r.envelope.isError <=> failed
                      /\ r.envelope.isError =>
                            r.envelope.text.code = "TOOL_EXECUTION_ERROR"
                      /\ refused =>
                            /\ ~r.envelope.isError
                            /\ r.envelope.text.success = FALSE)
    /\ [][\A i \in DOMAIN toolCalls :
            toolCalls[i].responded => toolCalls'[i] = toolCalls[i]]_vars

\* a tool call whose session operation was rejected by the platform has been
\* answered with the error envelope
C29_Witness ==
    \E i \in DOMAIN toolCalls :
        /\ toolCalls[i].responded
        /\ toolCalls[i].call # 0
        /\ calls[toolCalls[i].call].result = "PlatformError"
        /\ toolCalls[i].envelope.isError
        /\ toolCalls[i].envelope.text.code = "TOOL_EXECUTION_ERROR"
====
